---- MODULE Spec2Model ----
(***************************************************************************)
(* TagSearchPanel (tagstudio/src/qt/modals/tag_search.py): the panel that  *)
(* lists the tags the library finds for a query, ranks them, remembers the *)
(* first match, emits tag_chosen and opens the create / edit tag modals.   *)
(*                                                                         *)
(* Strings are sequences of code points, so that str.lower(),              *)
(* str.startswith() and Python's string ordering are computed, not         *)
(* assumed.  A query of None and a query of "" are both the empty          *)
(* sequence: update_tags only ever tests `query` for truth.                *)
(***************************************************************************)
EXTENDS Integers, Sequences, FiniteSets, TLC

\* Largest number of tags the library holds (initially, or after creations).
MaxTags == 2

\* first_tag_id: int | None = None.  Tag ids are 1, 2, ...
None == 0

\* ---------------------------------------------------------------- strings
EmptyStr == << >>
Str_a == << 97 >>
Str_b == << 98 >>
Str_Ab == << 65, 98 >>
Str_ab == << 97, 98 >>

\* Stored names, labels and queries of the panel's runs (Spec).
Names == { Str_Ab, Str_b }
DisplayNames == { Str_b, Str_Ab }
Queries == { EmptyStr, Str_a, Str_Ab }

\* Stored names, labels and queries update_tags is ranked on (SpecRank).
RankNames == { Str_a, Str_Ab, Str_b }
RankDisplayNames == { Str_b, Str_ab, Str_Ab }
RankQueries == { EmptyStr, Str_a, Str_Ab }

\* str.lower() on one code point: 'A'..'Z' map to 'a'..'z'.
LowerChar(c) == IF c >= 65 /\ c <= 90 THEN c + 32 ELSE c

\* str.lower()
lower(s) == [i \in 1..Len(s) |-> LowerChar(s[i])]

\* str.startswith(prefix)
startswith(s, prefix) ==
    /\ Len(prefix) <= Len(s)
    /\ \A i \in 1..Len(prefix) : s[i] = prefix[i]

\* `sub in s` (substring test)
contains(s, sub) ==
    \E k \in 0..(Len(s) - Len(sub)) :
        \A i \in 1..Len(sub) : s[k + i] = sub[i]

\* Python's str `<`: code point order, a proper prefix is smaller.
StrLess(a, b) ==
    \E k \in 1..(Len(b)) :
        /\ \A i \in 1..(k - 1) : i <= Len(a) /\ a[i] = b[i]
        /\ \/ k = Len(a) + 1
           \/ k <= Len(a) /\ a[k] < b[k]

StrLeq(a, b) == a = b \/ StrLess(a, b)

\* ---------------------------------------------------------------- library
\* The library is a sequence of rows [name, disp]; the tag with id i is row
\* i, `name` its stored name and `disp` the label the library shows for it.

\* A Tag object as search_tags hands it out.
Tag(l, i) == [id |-> i, name |-> l[i].name]

\* Library.tag_display_name(tag_id)
tag_display_name(l, id) == l[id].disp

\* The sets of tag ids Library.search_tags(name) may match.  No name: every
\* tag.  A name: every tag whose stored name contains it, case-insensitively,
\* plus any tags matched through a shorthand or an alias.
Matches(l, name) ==
    LET must == { i \in 1..Len(l) : contains(lower(l[i].name), lower(name)) }
    IN  IF name = EmptyStr
        THEN { 1..Len(l) }
        ELSE { S \in SUBSET (1..Len(l)) : must \subseteq S }

\* Library.search_tags(name): the possible results, in the order of the rows.
search_tags(l, name) ==
    { SelectSeq([i \in 1..Len(l) |-> Tag(l, i)], LAMBDA t : t.id \in S) :
        S \in Matches(l, name) }

\* Library.search_tags(name): the possible results, in any order.
search_tags_any_order(l, name) ==
    UNION { { [k \in 1..Cardinality(S) |-> Tag(l, f[k])] :
                f \in { g \in [1..Cardinality(S) -> S] :
                          \A a, b \in 1..Cardinality(S) :
                              a # b => g[a] # g[b] } } :
            S \in Matches(l, name) }

\* Library.add_tag(tag): the tag is stored and given the next id.
add_tag(l, name, disp) == Append(l, [name |-> name, disp |-> disp])

\* Library.update_tag(tag, parent_ids, alias_names, alias_ids)
update_tag(l, id, name, disp) ==
    [l EXCEPT ![id] = [name |-> name, disp |-> disp]]

\* ---------------------------------------------------------------- sorting
\* list.sort(key=...) is stable: an element comes after every element with a
\* smaller key and after the earlier elements with an equal key.  less[i, j]
\* tells whether the key of s[i] is smaller than the key of s[j].
StableSort(s, less) ==
    LET n == Len(s)
        before == [i \in 1..n |-> Cardinality({ j \in 1..n :
                      \/ less[j, i]
                      \/ j < i /\ ~less[i, j] })]
    IN  IF n <= 1 THEN s
        ELSE [p \in 1..n |-> s[CHOOSE i \in 1..n : before[i] = p - 1]]

\* tags.sort(key=lambda tag: self.lib.tag_display_name(tag.id))
SortByDisplayName(l, tags) ==
    StableSort(tags, [i, j \in DOMAIN tags |->
        StrLess(tag_display_name(l, tags[i].id),
                tag_display_name(l, tags[j].id))])

\* tags.sort(key=lambda tag: len(self.lib.tag_display_name(tag.id)))
SortByDisplayLen(l, tags) ==
    StableSort(tags, [i, j \in DOMAIN tags |->
        Len(tag_display_name(l, tags[i].id)) <
        Len(tag_display_name(l, tags[j].id))])

\* ------------------------------------------------------------ update_tags
\* IsExcluded with the exclude list never consulted.
IsExcludedNever(tag, ex) == FALSE

\* `tag.id in self.exclude`
IsExcluded(tag, ex) == tag.id \in ex

\* IsPrefixMatch with both .lower() calls left out.
IsPrefixMatchCaseSensitive(q, tag) ==
    q # EmptyStr /\ startswith(tag.name, q)

\* `query and tag.name.lower().startswith(query.lower())`
IsPrefixMatch(q, tag) ==
    q # EmptyStr /\ startswith(lower(tag.name), lower(q))

\* The loop of update_tags: the tags appended to results_1, in result order.
Bucket1(tr, q, ex) ==
    SelectSeq(tr, LAMBDA t : ~IsExcluded(t, ex) /\ IsPrefixMatch(q, t))

\* The loop of update_tags: the tags appended to results_2, in result order.
Bucket2(tr, q, ex) ==
    SelectSeq(tr, LAMBDA t : ~IsExcluded(t, ex) /\ ~IsPrefixMatch(q, t))

\* Results1 with the two sorts in the other order.
Results1LenThenName(l, tr, q, ex) ==
    SortByDisplayName(l, SortByDisplayLen(l, Bucket1(tr, q, ex)))

\* results_1 after its two sorts: by display name, then by its length.
Results1(l, tr, q, ex) ==
    SortByDisplayLen(l, SortByDisplayName(l, Bucket1(tr, q, ex)))

\* Results2 with the sort left out.
Results2Unsorted(l, tr, q, ex) == Bucket2(tr, q, ex)

\* results_2 after its sort by display name.
Results2(l, tr, q, ex) == SortByDisplayName(l, Bucket2(tr, q, ex))

\* HasResults off by one.
HasResultsMoreThanOne(tr) == Len(tr) > 1

\* `len(tag_results) > 0`
HasResults(tr) == Len(tr) > 0

\* `results_1[0].id if len(results_1) > 0 else tag_results[0].id`
FirstTagId(r1, tr) == IF Len(r1) > 0 THEN r1[1].id ELSE tr[1].id

\* ------------------------------------------------------------------ state
VARIABLES
    lib,             \* self.lib: the backing library's tags
    exclude,         \* self.exclude (only membership is ever tested)
    is_tag_chooser,  \* self.is_tag_chooser
    is_initialized,  \* self.is_initialized
    visible,         \* whether the panel is shown
    search_text,     \* self.search_field.text()
    first_tag_id,    \* self.first_tag_id
    query,           \* the argument of the latest update_tags
    tag_results,     \* what search_tags returned to the latest update_tags
    results_1,       \* the rows of scroll_layout built from results_1
    results_2,       \* the rows of scroll_layout built from results_2
    create_button,   \* << q >> while the create-tag button for q is in
                     \* scroll_layout, << >> otherwise
    modal,           \* the open PanelModal: add_tag_modal or edit_modal
    handler,         \* the handler that ran last
    trace            \* what that handler did, in order

vars == << lib, exclude, is_tag_chooser, is_initialized, visible, search_text,
           first_tag_id, query, tag_results, results_1, results_2,
           create_button, modal, handler, trace >>

panel == << exclude, is_tag_chooser >>

\* The rows of scroll_layout, top to bottom: results_1 + results_2.
Displayed == results_1 \o results_2

Ev(op, arg) == [op |-> op, arg |-> arg]

NoModal == [kind |-> "none", name |-> EmptyStr, id |-> None]

\* update_tags(q) against library l, search_tags having returned tr.
update_tags_on(l, q, tr) ==
    /\ query' = q
    /\ tag_results' = tr
    /\ IF HasResults(tr)
       THEN /\ results_1' = Results1(l, tr, q, exclude)
            /\ results_2' = Results2(l, tr, q, exclude)
            /\ first_tag_id' = FirstTagId(results_1', tr)
            /\ create_button' = << >>
       ELSE /\ results_1' = << >>
            /\ results_2' = << >>
            /\ first_tag_id' = None
            /\ create_button' = << q >>

\* update_tags(q) against library l.
update_tags(l, q) == \E tr \in search_tags(l, q) : update_tags_on(l, q, tr)

\* The panel as constructed, over a library of rows drawn from `rows`.
Constructed(rows) ==
    /\ lib \in UNION { [1..n -> rows] : n \in 0..MaxTags }
    /\ exclude \in SUBSET (1..MaxTags)
    /\ is_tag_chooser \in BOOLEAN
    /\ is_initialized = FALSE
    /\ visible = FALSE
    /\ search_text = EmptyStr
    /\ first_tag_id = None
    /\ query = EmptyStr
    /\ tag_results = << >>
    /\ results_1 = << >>
    /\ results_2 = << >>
    /\ create_button = << >>
    /\ modal = NoModal
    /\ handler = "__init__"
    /\ trace = << >>

Init == Constructed([name : Names, disp : DisplayNames])

\* The user can reach the panel: it is shown and no modal covers it.
Usable == visible /\ modal.kind = "none"

\* showEvent: the first one fills the list.
ShowEventFirst ==
    /\ ~visible /\ ~is_initialized
    /\ update_tags(lib, EmptyStr)
    /\ is_initialized' = TRUE
    /\ visible' = TRUE
    /\ handler' = "showEvent"
    /\ trace' = << Ev("update_tags", EmptyStr) >>
    /\ UNCHANGED << lib, panel, search_text, modal >>

\* showEvent of a panel that was filled before.
ShowEventAgain ==
    /\ ~visible /\ is_initialized
    /\ visible' = TRUE
    /\ handler' = "showEvent"
    /\ trace' = << >>
    /\ UNCHANGED << lib, panel, is_initialized, search_text, first_tag_id,
                    query, tag_results, results_1, results_2, create_button,
                    modal >>

\* search_field.textEdited: the user edits the text to q.
TextEdited(q) ==
    /\ Usable
    /\ q # search_text
    /\ search_text' = q
    /\ update_tags(lib, q)
    /\ handler' = "textEdited"
    /\ trace' = << Ev("update_tags", q) >>
    /\ UNCHANGED << lib, panel, is_initialized, visible, modal >>

\* EmitsOnReturn with the test of is_tag_chooser left out.
EmitsOnReturnAlways(chooser) == TRUE

\* `if self.is_tag_chooser:` before on_return's emit.
EmitsOnReturn(chooser) == chooser

\* on_return, text given, a first tag known: choose it, clear, refresh.
OnReturnChoose ==
    /\ Usable
    /\ search_text # EmptyStr
    /\ first_tag_id # None
    /\ search_text' = EmptyStr
    /\ update_tags(lib, EmptyStr)
    /\ handler' = "on_return"
    /\ trace' = (IF EmitsOnReturn(is_tag_chooser)
                 THEN << Ev("tag_chosen.emit", << first_tag_id >>) >>
                 ELSE << >>)
                \o << Ev("search_field.setText", EmptyStr),
                      Ev("update_tags", EmptyStr) >>
    /\ UNCHANGED << lib, panel, is_initialized, visible, modal >>

\* create_and_add_tag(name): the "Create Tag" modal opens on that name.
create_and_add_tag(name) ==
    /\ modal' = [kind |-> "add", name |-> name, id |-> None]
    /\ trace' = << Ev("create_and_add_tag", name) >>
    /\ UNCHANGED << lib, panel, is_initialized, visible, search_text,
                    first_tag_id, query, tag_results, results_1, results_2,
                    create_button >>

\* on_return, text given, no first tag: create a tag of that name.
OnReturnCreate ==
    /\ Usable
    /\ search_text # EmptyStr
    /\ first_tag_id = None
    /\ handler' = "on_return"
    /\ create_and_add_tag(search_text)

\* on_return without text: focus the field, hide the parent.
OnReturnEmpty ==
    /\ Usable
    /\ search_text = EmptyStr
    /\ visible' = FALSE
    /\ handler' = "on_return"
    /\ trace' = << Ev("search_field.setFocus", EmptyStr),
                   Ev("parentWidget.hide", EmptyStr) >>
    /\ UNCHANGED << lib, panel, is_initialized, search_text, first_tag_id,
                    query, tag_results, results_1, results_2, create_button,
                    modal >>

\* The "+" button of row i (rows have one only in a tag chooser).
AddButtonClicked(i) ==
    /\ Usable
    /\ is_tag_chooser
    /\ i \in DOMAIN Displayed
    /\ handler' = "add_button.clicked"
    /\ trace' = << Ev("tag_chosen.emit", << Displayed[i].id >>) >>
    /\ UNCHANGED << lib, panel, is_initialized, visible, search_text,
                    first_tag_id, query, tag_results, results_1, results_2,
                    create_button, modal >>

\* The create-tag button, built for the query it shows.
CreateButtonClicked ==
    /\ Usable
    /\ create_button # << >>
    /\ handler' = "create_button.clicked"
    /\ create_and_add_tag(create_button[1])

\* TagModalSavedTrace with the emit moved before lib.add_tag.
TagModalSavedEmitsFirst(id) ==
    << Ev("tag_chosen.emit", << id >>),
       Ev("lib.add_tag", << id >>),
       Ev("add_tag_modal.hide", EmptyStr),
       Ev("search_field.setText", EmptyStr),
       Ev("update_tags", EmptyStr) >>

\* What on_tag_modal_saved does, in order, for the tag that gets id `id`.
TagModalSavedTrace(id) ==
    << Ev("lib.add_tag", << id >>),
       Ev("add_tag_modal.hide", EmptyStr),
       Ev("tag_chosen.emit", << id >>),
       Ev("search_field.setText", EmptyStr),
       Ev("update_tags", EmptyStr) >>

\* add_tag_modal.saved -> on_tag_modal_saved; n is the name in the modal's
\* name field by then (the proposed one, or what the user typed over it), d
\* the label the library will show for the new tag.
OnTagModalSaved(n, d) ==
    /\ modal.kind = "add"
    /\ Len(lib) < MaxTags
    /\ lib' = add_tag(lib, n, d)
    /\ modal' = NoModal
    /\ search_text' = EmptyStr
    /\ update_tags(lib', EmptyStr)
    /\ handler' = "on_tag_modal_saved"
    /\ trace' = TagModalSavedTrace(Len(lib'))
    /\ UNCHANGED << panel, is_initialized, visible >>

\* The open modal is closed without saving.
ModalClosed ==
    /\ modal.kind # "none"
    /\ modal' = NoModal
    /\ handler' = "modal.closed"
    /\ trace' = << >>
    /\ UNCHANGED << lib, panel, is_initialized, visible, search_text,
                    first_tag_id, query, tag_results, results_1, results_2,
                    create_button >>

\* on_edit of row i -> edit_tag(tag): building the modal's done_callback
\* argument runs update_tags at once; then the modal is shown.
EditTag(i) ==
    /\ Usable
    /\ i \in DOMAIN Displayed
    /\ update_tags(lib, search_text)
    /\ modal' = [kind |-> "edit", name |-> EmptyStr, id |-> Displayed[i].id]
    /\ handler' = "edit_tag"
    /\ trace' = << Ev("update_tags", search_text),
                   Ev("edit_modal.show", << Displayed[i].id >>) >>
    /\ UNCHANGED << lib, panel, is_initialized, visible, search_text >>

\* edit_modal.saved -> callback(btp): the tag is rewritten (name n, shown
\* as d) and the list is recomputed for the text in the field.
EditModalSaved(n, d) ==
    /\ modal.kind = "edit"
    /\ lib' = update_tag(lib, modal.id, n, d)
    /\ modal' = NoModal
    /\ update_tags(lib', search_text)
    /\ handler' = "edit_tag.callback"
    /\ trace' = << Ev("lib.update_tag", << modal.id >>),
                   Ev("update_tags", search_text) >>
    /\ UNCHANGED << panel, is_initialized, visible, search_text >>

Next ==
    \/ ShowEventFirst
    \/ ShowEventAgain
    \/ \E q \in Queries : TextEdited(q)
    \/ OnReturnChoose
    \/ OnReturnCreate
    \/ OnReturnEmpty
    \/ \E i \in 1..MaxTags : AddButtonClicked(i)
    \/ CreateButtonClicked
    \/ \E n \in Names \cup {modal.name}, d \in DisplayNames :
          OnTagModalSaved(n, d)
    \/ ModalClosed
    \/ \E i \in 1..MaxTags : EditTag(i)
    \/ \E n \in Names, d \in DisplayNames : EditModalSaved(n, d)

Spec == Init /\ [][Next]_vars

\* ------------------------------------------------- update_tags on its own
RankInit == Constructed([name : RankNames, disp : RankDisplayNames])

\* update_tags(q) called on the constructed panel, the library answering
\* with any result in any order.  update_tags overwrites all it reads of the
\* panel but the library and the exclude list, so one call shows them all.
RankUpdate ==
    \E q \in RankQueries :
        \E tr \in search_tags_any_order(lib, q) :
            /\ handler = "__init__"
            /\ update_tags_on(lib, q, tr)
            /\ handler' = "update_tags"
            /\ trace' = << Ev("update_tags", q) >>
            /\ UNCHANGED << lib, panel, is_initialized, visible, search_text,
                            modal >>

RankNext == RankUpdate

SpecRank == RankInit /\ [][RankNext]_vars

\* ----------------------------------------------------------------- claims
\* The label the library shows for displayed tag t.
DisplayNameOf(t) == tag_display_name(lib, t.id)

\* s is ordered by display name ascending.
OrderedByDisplayName(s) ==
    \A i, j \in DOMAIN s :
        i < j => StrLeq(DisplayNameOf(s[i]), DisplayNameOf(s[j]))

\* The tags of the latest backing result that are not excluded.
NotExcludedResults == { tag_results[k] : k \in DOMAIN tag_results } \
                      { t \in { tag_results[k] : k \in DOMAIN tag_results } :
                          t.id \in exclude }

\* C1: after update_tags, whatever the query, the backing result and the
\* exclude list, no displayed tag has its id in the exclude list.
C1_NoExcludedTagDisplayed ==
    \A i \in DOMAIN Displayed : Displayed[i].id \notin exclude

\* C1's case: the backing result held an excluded tag and a tag that is shown.
C1_Witness ==
    /\ handler = "update_tags"
    /\ \E k \in DOMAIN tag_results : tag_results[k].id \in exclude
    /\ Len(Displayed) > 0

\* C2: first_tag_id is None or the id of the first displayed tag, and it is
\* that id whenever a tag is displayed.
C2_FirstTagIsRankZero ==
    IF Len(Displayed) > 0
    THEN first_tag_id = Displayed[1].id
    ELSE first_tag_id = None

\* C3 as stated: for a non-empty query the displayed list splits into a
\* leading and a trailing part, a tag being in the leading part exactly when
\* its display name starts with the query, case-insensitively.
C3_LeadingIffDisplayNamePrefix ==
    query # EmptyStr =>
        \E k \in 0..Len(Displayed) :
            \A i \in DOMAIN Displayed :
                i <= k <=> startswith(lower(DisplayNameOf(Displayed[i])),
                                      lower(query))

\* C3 as amended: for a non-empty query a displayed tag is in the leading
\* segment exactly when its stored name (tag.name) starts with the query,
\* case-insensitively; the leading segment is displayed before the trailing.
C3_LeadingIffStoredNamePrefix ==
    query # EmptyStr =>
        \A i \in DOMAIN Displayed :
            i <= Len(results_1) <=> startswith(lower(Displayed[i].name),
                                               lower(query))

\* C3's case: a non-empty query, both segments filled, a leading tag whose
\* name differs from the query in case and whose label does not start with it.
C3_Witness ==
    /\ handler = "update_tags"
    /\ query # EmptyStr
    /\ Len(results_1) > 0 /\ Len(results_2) > 0
    /\ \E i \in DOMAIN results_1 :
           /\ ~startswith(results_1[i].name, query)
           /\ ~startswith(lower(DisplayNameOf(results_1[i])), lower(query))

\* One sort on the compound key (length of display name, display name).
SortByLenAndName(tags) ==
    StableSort(tags, [i, j \in DOMAIN tags |->
        LET a == DisplayNameOf(tags[i])
            b == DisplayNameOf(tags[j])
        IN  \/ Len(a) < Len(b)
            \/ Len(a) = Len(b) /\ StrLess(a, b)])

\* C4: in the leading segment a tag with a shorter display name comes first,
\* and of two with display names of one length the one with the smaller
\* display name; the two sorts give what one sort on (length, name) gives.
C4_LeadingByLengthThenName ==
    /\ \A i, j \in DOMAIN results_1 :
           i < j =>
               LET a == DisplayNameOf(results_1[i])
                   b == DisplayNameOf(results_1[j])
               IN  /\ Len(a) <= Len(b)
                   /\ Len(a) = Len(b) => StrLeq(a, b)
    /\ HasResults(tag_results) =>
           results_1 = SortByLenAndName(Bucket1(tag_results, query, exclude))

\* C4's case: two leading tags, the shorter display name the greater one, so
\* that the sort by name alone would put them the other way round.
C4_Witness ==
    /\ handler = "update_tags"
    /\ Len(results_1) >= 2
    /\ Len(DisplayNameOf(results_1[1])) < Len(DisplayNameOf(results_1[2]))
    /\ StrLess(DisplayNameOf(results_1[2]), DisplayNameOf(results_1[1]))

\* C5: with an empty or absent query nothing is in the prefix-match bucket
\* and the displayed list is the non-excluded tags of the backing result by
\* display name ascending; the trailing bucket is always in that order.
C5_EmptyQueryByNameOnly ==
    /\ query = EmptyStr =>
           /\ results_1 = << >>
           /\ { Displayed[i] : i \in DOMAIN Displayed } = NotExcludedResults
           /\ Len(Displayed) = Cardinality(NotExcludedResults)
           /\ OrderedByDisplayName(Displayed)
    /\ OrderedByDisplayName(results_2)

\* C5's case: an empty query and two tags shown in another order than the
\* backing result had them, the longer display name first.
C5_Witness ==
    /\ handler = "update_tags"
    /\ query = EmptyStr
    /\ Len(results_2) >= 2
    /\ results_2 # tag_results
    /\ Len(DisplayNameOf(results_2[1])) > Len(DisplayNameOf(results_2[2]))

\* C6: after update_tags, a backing result without tags leaves no tag
\* displayed, first_tag_id None and the create-tag button for the query
\* shown; the button is shown in no other case.
C6_CreateButtonIffNoBackingResult ==
    handler # "__init__" =>
        /\ Len(tag_results) = 0 =>
               /\ Displayed = << >>
               /\ first_tag_id = None
               /\ create_button = << query >>
        /\ create_button # << >> => Len(tag_results) = 0

\* C6's case: a query the library, which has tags, finds nothing for.
C6_Witness ==
    /\ handler = "update_tags"
    /\ Len(lib) > 0
    /\ query # EmptyStr
    /\ Len(tag_results) = 0
    /\ create_button = << query >>

\* C7: a backing result all of whose tags are excluded leaves the displayed
\* list empty, no create-tag button and first_tag_id None.
C7_AllExcludedClearsFirstTag ==
    ( /\ handler # "__init__"
      /\ Len(tag_results) > 0
      /\ \A k \in DOMAIN tag_results : tag_results[k].id \in exclude )
    => /\ Displayed = << >>
       /\ create_button = << >>
       /\ first_tag_id = None

\* What on_return is to leave in the trace when it chooses tag `id`.
ChoosesThenRefreshes(id) ==
    << Ev("tag_chosen.emit", << id >>),
       Ev("search_field.setText", EmptyStr),
       Ev("update_tags", EmptyStr) >>

\* What on_return does when it starts creating a tag of the text's name.
StartsCreation ==
    /\ trace' = << Ev("create_and_add_tag", search_text) >>
    /\ modal' = [kind |-> "add", name |-> search_text, id |-> None]

\* C8 as stated: on_return with text emits tag_chosen(first_tag_id), then
\* clears the text and recomputes the list for the empty query, when
\* first_tag_id is set; it starts creating a tag named as the text, and emits
\* nothing, when first_tag_id is None.
C8_ReturnChoosesFirstTag ==
    [][ (handler' = "on_return" /\ search_text # EmptyStr) =>
            IF first_tag_id # None
            THEN /\ trace' = ChoosesThenRefreshes(first_tag_id)
                 /\ search_text' = EmptyStr
                 /\ query' = EmptyStr
            ELSE StartsCreation ]_vars

\* C8 as amended: when first_tag_id is set, tag_chosen(first_tag_id) is
\* emitted only if the panel is a tag chooser; in either case the text is
\* cleared and the list recomputed for the empty query.  When first_tag_id is
\* None a tag named as the text starts being created and nothing is emitted.
C8_ReturnChoosesFirstTagIfChooser ==
    [][ (handler' = "on_return" /\ search_text # EmptyStr) =>
            IF first_tag_id # None
            THEN /\ trace' = IF is_tag_chooser
                             THEN ChoosesThenRefreshes(first_tag_id)
                             ELSE Tail(ChoosesThenRefreshes(first_tag_id))
                 /\ search_text' = EmptyStr
                 /\ query' = EmptyStr
            ELSE StartsCreation ]_vars

\* C8's case: on_return has cleared and refreshed a panel that is no tag
\* chooser, emitting nothing.
C8_Witness ==
    /\ handler = "on_return"
    /\ ~is_tag_chooser
    /\ Len(trace) = 2
    /\ trace[2] = Ev("update_tags", EmptyStr)
    /\ Len(Displayed) > 0

\* C9: saving the create-tag modal adds the built tag to the library, then
\* emits tag_chosen with its id, then clears the text, then recomputes the
\* list for the empty query against the library holding the new tag; while
\* the modal is opened (and not yet saved) none of these happens.
C9_SavedAddsChoosesClearsRefreshes ==
    [][ /\ handler' = "on_tag_modal_saved" =>
               LET id == Len(lib) + 1
               IN  /\ modal.kind = "add"
                   /\ DOMAIN lib' = 1..id
                   /\ \A i \in DOMAIN lib : lib'[i] = lib[i]
                   /\ trace' = << Ev("lib.add_tag", << id >>),
                                  Ev("add_tag_modal.hide", EmptyStr),
                                  Ev("tag_chosen.emit", << id >>),
                                  Ev("search_field.setText", EmptyStr),
                                  Ev("update_tags", EmptyStr) >>
                   /\ search_text' = EmptyStr
                   /\ query' = EmptyStr
                   /\ \E k \in DOMAIN tag_results' :
                          tag_results'[k] = Tag(lib', id)
        /\ modal'.kind = "add" =>
               /\ lib' = lib
               /\ \A k \in DOMAIN trace' : trace'[k].op # "tag_chosen.emit"
               /\ search_text' = search_text
               /\ << query, tag_results, results_1, results_2 >>' =
                  << query, tag_results, results_1, results_2 >> ]_vars

\* C9's case: the modal was saved on a text the user had typed, and the new
\* tag is displayed.
C9_Witness ==
    /\ handler = "on_tag_modal_saved"
    /\ \E i \in DOMAIN Displayed : Displayed[i].id = Len(lib)
    /\ Len(tag_results) >= 2

\* C10: every id on_return or a row's add button emits through tag_chosen
\* is the id of a tag that is not in the exclude list.
C10_ChosenTagNeverExcluded ==
    handler \in { "on_return", "add_button.clicked" } =>
        \A k \in DOMAIN trace :
            trace[k].op = "tag_chosen.emit" => trace[k].arg[1] \notin exclude

====
